---- MODULE Spec2Model ----
(***************************************************************************)
(* State-machine model of the request orchestration of MINI-HOUSE-BUILD   *)
(* (src/types.ts): the retrying call wrapper callApiWithRetry, the batched *)
(* runner runPromisesInBatches, the cycle functions generateHouseDesign,   *)
(* editHouseDesign and generateAssetsFromDescription, and the handlers of  *)
(* the App component (src/App.tsx) that start cycles.                      *)
(*                                                                         *)
(* Asynchronous JavaScript is modelled at the granularity of the event     *)
(* loop: an action is one run-to-completion step (the synchronous prefix   *)
(* of an async function up to its first await, the settlement of a remote  *)
(* call, a timer, or the continuation of an await).                        *)
(***************************************************************************)
EXTENDS Integers, Sequences, FiniteSets, TLC

\* ------------------------------------------------------------------ bounds

\* Largest maxRetries argument explored (the default, 3, lies inside).
MaxRetriesBound == 4
\* Math.random() is sampled on the grid {0, 1/RandomGrid, ..., (RandomGrid-1)/RandomGrid}.
RandomGrid == 2
\* Largest promiseFactories.length explored.
MaxOps == 5
\* Largest batchSize explored.
MaxBatch == 3

\* --------------------------------------------------------- program constants

DefaultMaxRetries == 3
DefaultInitialDelay == 1000
JitterSpan == 1000

\* ------------------------------------------------------------ thrown values

\* A JavaScript string is a sequence of one-character strings.
UpperLetters == <<"A","B","C","D","E","F","G","H","I","J","K","L","M",
                  "N","O","P","Q","R","S","T","U","V","W","X","Y","Z">>
LowerLetters == <<"a","b","c","d","e","f","g","h","i","j","k","l","m",
                  "n","o","p","q","r","s","t","u","v","w","x","y","z">>

\* String.prototype.toLowerCase, one character.
LowerChar(c) ==
    IF \E k \in 1..26 : UpperLetters[k] = c
    THEN LowerLetters[CHOOSE k \in 1..26 : UpperLetters[k] = c]
    ELSE c

\* String.prototype.toLowerCase.
toLowerCase(s) == [k \in 1..Len(s) |-> LowerChar(s[k])]

\* String.prototype.includes.
includes(s, p) ==
    \E k \in 0..(Len(s) - Len(p)) : SubSeq(s, k + 1, k + Len(p)) = p

\* A thrown value: isError is `error instanceof Error', message its text
\* (for a non-Error value: the text it carries, which the code never reads).
Thrown(isErr, msg) == [isError |-> isErr, message |-> msg]

ErrQuota   == Thrown(TRUE,  <<"Q","u","o","t","a"," ","h","i","t">>)
ErrRate    == Thrown(TRUE,  <<"R","a","t","e"," ","L","i","m","i","t">>)
Err429     == Thrown(TRUE,  <<"H","T","T","P"," ","4","2","9">>)
ErrAuth    == Thrown(TRUE,  <<"A","P","I"," ","k","e","y">>)
ErrBlocked == Thrown(TRUE,  <<"b","l","o","c","k","e","d">>)
Obj429     == Thrown(FALSE, <<"4","2","9">>)

\* The failures a remote call may produce.
Failures == {ErrQuota, ErrRate, Err429, ErrAuth, ErrBlocked, Obj429}
\* The values a remote call may produce.
Values == {"v1", "v2"}

isRateLimitErrorCaseSensitive(error) ==
    IF error.isError
    THEN LET message == error.message
         IN  \/ includes(message, <<"q","u","o","t","a">>)
             \/ includes(message, <<"r","a","t","e"," ","l","i","m","i","t">>)
             \/ includes(message, <<"4","2","9">>)
    ELSE FALSE
isRateLimitError(error) ==
    IF error.isError
    THEN LET message == toLowerCase(error.message)
         IN  \/ includes(message, <<"q","u","o","t","a">>)
             \/ includes(message, <<"r","a","t","e"," ","l","i","m","i","t">>)
             \/ includes(message, <<"4","2","9">>)
    ELSE FALSE

\* ------------------------------------------------------- callApiWithRetry

\* Math.pow(2, n) for n >= 0.
RECURSIVE Pow2(_)
Pow2(n) == IF n <= 0 THEN 1 ELSE 2 * Pow2(n - 1)

\* Math.random() * 1000 with Math.random() = r / RandomGrid, in whole ms.
Jitter(r) == (r * JitterSpan) \div RandomGrid

BackoffDelayShifted(initDelay, att, r) == initDelay * Pow2(att) + Jitter(r)
\* initialDelay * Math.pow(2, attempt - 1) + Math.random() * 1000
BackoffDelay(initDelay, att, r) == initDelay * Pow2(att - 1) + Jitter(r)

ShouldRethrowWhenEqual(att, maxR, error) ==
    att = maxR \/ ~isRateLimitError(error)
ShouldRethrowOffByOne(att, maxR, error) ==
    att > maxR \/ ~isRateLimitError(error)
ShouldRethrowEarly(att, maxR, error) ==
    att + 1 >= maxR \/ ~isRateLimitError(error)
ShouldRethrowOnlyWhenExhausted(att, maxR, error) ==
    att >= maxR
\* attempt >= maxRetries || !isRateLimitError(error)
ShouldRethrow(att, maxR, error) ==
    att >= maxR \/ ~isRateLimitError(error)

VARIABLES
    rpc,          \* where the callApiWithRetry call stands
    maxRetries,   \* its maxRetries argument
    initialDelay, \* its initialDelay argument
    attempt,      \* its local counter
    apiCalls,     \* how many times apiCall() has been invoked
    outcomes,     \* history: the settlement of each apiCall(), in order
    delays,       \* history: the delay handed to each setTimeout, in order
    retryResult   \* how the call settled

retryVars == <<rpc, maxRetries, initialDelay, attempt, apiCalls, outcomes,
               delays, retryResult>>

VARIABLES
    bpc,             \* where the runPromisesInBatches call stands
    numOps,          \* promiseFactories.length
    batchSize,       \* its batchSize argument
    i,               \* its loop variable
    results,         \* its accumulator
    batchPromise,    \* the Promise.all it awaits
    opState,         \* per operation: deferred, inflight, resolved, rejected
    opInvoked,       \* per operation: how many times its factory was invoked
    opOutcome,       \* per operation: how its promise settled
    startedAtI,      \* history: the value of i when the factory was invoked
    completionOrder, \* history: the operations in the order they settled
    batchResult      \* how the call settled

batchVars == <<bpc, numOps, batchSize, i, results, batchPromise, opState,
               opInvoked, opOutcome, startedAtI, completionOrder, batchResult>>


VARIABLES
    cycles,   \* per cycle: the generateHouseDesign / editHouseDesign call
    awaited   \* the cycle the running App handler awaits (0: none)

cycleVars == <<cycles, awaited>>

\* The state of the App component (useState).
VARIABLES
    prompt,
    isLoading,
    error,
    imageViews,
    sketchUrl,
    cuttingList,
    activeView,
    detailedDescription,
    isEditing

appVars == <<prompt, isLoading, error, imageViews, sketchUrl, cuttingList,
             activeView, detailedDescription, isEditing>>

vars == <<retryVars, batchVars, cycleVars, appVars>>

\* What a step of callApiWithRetry leaves alone, what a step of
\* runPromisesInBatches leaves alone, and what a step of a cycle or of the
\* App leaves alone.
outsideRetry == <<batchVars, cycleVars, appVars>>
outsideBatch == <<retryVars, cycleVars, appVars>>
outsideCycle == <<retryVars, batchVars>>

NoResult == [kind |-> "none"]
Returned(v) == [kind |-> "return", value |-> v]
Threw(e) == [kind |-> "throw", value |-> e]
Fulfilled(v) == [ok |-> TRUE, value |-> v]
Rejected(e) == [ok |-> FALSE, value |-> e]

InitRetry ==
    /\ rpc = "idle"
    /\ maxRetries = DefaultMaxRetries
    /\ initialDelay = DefaultInitialDelay
    /\ attempt = 0
    /\ apiCalls = 0
    /\ outcomes = <<>>
    /\ delays = <<>>
    /\ retryResult = NoResult

\* The arguments a caller may pass.
MaxRetriesArgs == (-1)..MaxRetriesBound
InitialDelayArgs == {DefaultInitialDelay, 200}

\* The call: attempt = 0, then the first apiCall() of the loop.
callApiWithRetry ==
    /\ rpc = "idle"
    /\ \E m \in MaxRetriesArgs, d \in InitialDelayArgs :
          /\ maxRetries' = m
          /\ initialDelay' = d
    /\ attempt' = 0
    /\ apiCalls' = 1
    /\ rpc' = "calling"
    /\ UNCHANGED <<outcomes, delays, retryResult>>
    /\ UNCHANGED outsideRetry

ApiCallResolvesThenLoops ==
    /\ rpc = "calling"
    /\ \E v \in Values :
          /\ outcomes' = Append(outcomes, Fulfilled(v))
          /\ apiCalls' = apiCalls + 1
          /\ UNCHANGED <<rpc, retryResult>>
    /\ UNCHANGED <<maxRetries, initialDelay, attempt, delays>>
    /\ UNCHANGED outsideRetry
\* return await apiCall();   (apiCall() fulfils)
ApiCallResolves ==
    /\ rpc = "calling"
    /\ \E v \in Values :
          /\ outcomes' = Append(outcomes, Fulfilled(v))
          /\ retryResult' = Returned(v)
    /\ rpc' = "returned"
    /\ UNCHANGED <<maxRetries, initialDelay, attempt, apiCalls, delays>>
    /\ UNCHANGED outsideRetry

\* catch (error) { attempt++; ... throw error }
ApiCallRejectsRethrow ==
    /\ rpc = "calling"
    /\ \E e \in Failures :
          /\ ShouldRethrow(attempt + 1, maxRetries, e)
          /\ outcomes' = Append(outcomes, Rejected(e))
          /\ retryResult' = Threw(e)
    /\ attempt' = attempt + 1
    /\ rpc' = "thrown"
    /\ UNCHANGED <<maxRetries, initialDelay, apiCalls, delays>>
    /\ UNCHANGED outsideRetry

\* catch (error) { attempt++; ... delay = ...; await setTimeout(delay) }
ApiCallRejectsBackoff ==
    /\ rpc = "calling"
    /\ \E e \in Failures, r \in 0..(RandomGrid - 1) :
          /\ ~ShouldRethrow(attempt + 1, maxRetries, e)
          /\ outcomes' = Append(outcomes, Rejected(e))
          /\ delays' = Append(delays, BackoffDelay(initialDelay, attempt + 1, r))
    /\ attempt' = attempt + 1
    /\ rpc' = "sleeping"
    /\ UNCHANGED <<maxRetries, initialDelay, apiCalls, retryResult>>
    /\ UNCHANGED outsideRetry

\* The timer fires: the loop runs apiCall() again.
TimerFires ==
    /\ rpc = "sleeping"
    /\ apiCalls' = apiCalls + 1
    /\ rpc' = "calling"
    /\ UNCHANGED <<maxRetries, initialDelay, attempt, outcomes, delays,
                   retryResult>>
    /\ UNCHANGED outsideRetry

\* --------------------------------------------------- runPromisesInBatches

\* The failures an operation handed to the runner may produce.
OpFailures == {ErrAuth, ErrQuota}

Min(a, b) == IF a <= b THEN a ELSE b

SliceToEnd(iv, bs, n) == (iv + 1)..n
\* promiseFactories.slice(i, i + batchSize): the 1-based positions it holds.
Slice(iv, bs, n) == (iv + 1)..Min(iv + bs, n)

Unset == [ok |-> TRUE, value |-> "unset"]

\* Promise.all(batchPromises) over the operations base+1 .. base+size.
PromiseAllNew(base, size) ==
    [state |-> "pending", base |-> base, size |-> size,
     values |-> [k \in 1..size |-> Unset], remaining |-> size,
     reason |-> NoResult]

NoPromise == PromiseAllNew(0, 0)

PromiseAllOnFulfilAny(p, pos, v) ==
    IF p.state = "pending"
    THEN [p EXCEPT !.values[pos] = v,
                   !.remaining = p.remaining - 1,
                   !.state = "fulfilled"]
    ELSE p
PromiseAllOnFulfilInArrivalOrder(p, pos, v) ==
    IF p.state = "pending"
    THEN LET slot == CHOOSE k \in 1..p.size :
                        /\ p.values[k] = Unset
                        /\ \A l \in 1..(k - 1) : p.values[l] # Unset
         IN  [p EXCEPT !.values[slot] = v,
                       !.remaining = p.remaining - 1,
                       !.state = IF p.remaining = 1 THEN "fulfilled"
                                 ELSE "pending"]
    ELSE p
\* Promise.all's reaction to the fulfilment of its pos-th element.
PromiseAllOnFulfil(p, pos, v) ==
    IF p.state = "pending"
    THEN [p EXCEPT !.values[pos] = v,
                   !.remaining = p.remaining - 1,
                   !.state = IF p.remaining = 1 THEN "fulfilled" ELSE "pending"]
    ELSE p

PromiseAllOnRejectLastWins(p, e) ==
    IF p.state \in {"pending", "rejected"}
    THEN [p EXCEPT !.state = "rejected", !.reason = e]
    ELSE p
\* Promise.all's reaction to the rejection of one of its elements.
PromiseAllOnReject(p, e) ==
    IF p.state = "pending"
    THEN [p EXCEPT !.state = "rejected", !.reason = e]
    ELSE p


InitBatch ==
    /\ bpc = "idle"
    /\ numOps = 0
    /\ batchSize = 1
    /\ i = 0
    /\ results = <<>>
    /\ batchPromise = NoPromise
    /\ opState = <<>>
    /\ opInvoked = <<>>
    /\ opOutcome = <<>>
    /\ startedAtI = <<>>
    /\ completionOrder = <<>>
    /\ batchResult = NoResult

\* The arguments a caller may pass (batchSize is a positive integer).
NumOpsArgs == 0..MaxOps
BatchSizeArgs == 1..MaxBatch

\* The loop of runPromisesInBatches from its test i < promiseFactories.length,
\* entered with i = iv and results = res, up to the next await or the return.
LoopFrom(iv, res, n, bs, st, inv, at) ==
    /\ i' = iv
    /\ results' = res
    /\ IF iv < n
       THEN LET batch == Slice(iv, bs, n)
            IN  /\ opState' = [j \in 1..n |->
                                  IF j \in batch THEN "inflight" ELSE st[j]]
                /\ opInvoked' = [j \in 1..n |->
                                  IF j \in batch THEN inv[j] + 1 ELSE inv[j]]
                /\ startedAtI' = [j \in 1..n |->
                                  IF j \in batch THEN iv ELSE at[j]]
                /\ batchPromise' = PromiseAllNew(iv, Cardinality(batch))
                /\ bpc' = "awaiting"
                /\ batchResult' = NoResult
       ELSE /\ opState' = st
            /\ opInvoked' = inv
            /\ startedAtI' = at
            /\ batchPromise' = batchPromise
            /\ bpc' = "returned"
            /\ batchResult' = Returned(res)

\* The call: results = [], i = 0, then the loop.
runPromisesInBatches ==
    /\ bpc = "idle"
    /\ \E n \in NumOpsArgs, bs \in BatchSizeArgs :
          /\ numOps' = n
          /\ batchSize' = bs
          /\ opOutcome' = [j \in 1..n |-> NoResult]
          /\ LoopFrom(0, <<>>, n, bs, [j \in 1..n |-> "deferred"],
                      [j \in 1..n |-> 0], [j \in 1..n |-> -1])
    /\ UNCHANGED completionOrder
    /\ UNCHANGED outsideBatch

\* An operation's promise fulfils; Promise.all reacts.
OpResolves ==
    /\ \E j \in DOMAIN opState, v \in Values :
          /\ opState[j] = "inflight"
          /\ opState' = [opState EXCEPT ![j] = "resolved"]
          /\ opOutcome' = [opOutcome EXCEPT ![j] = Fulfilled(v)]
          /\ completionOrder' = Append(completionOrder, j)
          /\ batchPromise' =
                IF j \in Slice(batchPromise.base, batchPromise.size, numOps)
                THEN PromiseAllOnFulfil(batchPromise, j - batchPromise.base,
                                        Fulfilled(v))
                ELSE batchPromise
    /\ UNCHANGED <<bpc, numOps, batchSize, i, results, opInvoked, startedAtI,
                   batchResult>>
    /\ UNCHANGED outsideBatch

\* An operation's promise rejects; Promise.all reacts.
OpRejects ==
    /\ \E j \in DOMAIN opState, e \in OpFailures :
          /\ opState[j] = "inflight"
          /\ opState' = [opState EXCEPT ![j] = "rejected"]
          /\ opOutcome' = [opOutcome EXCEPT ![j] = Rejected(e)]
          /\ completionOrder' = Append(completionOrder, j)
          /\ batchPromise' =
                IF j \in Slice(batchPromise.base, batchPromise.size, numOps)
                THEN PromiseAllOnReject(batchPromise, e)
                ELSE batchPromise
    /\ UNCHANGED <<bpc, numOps, batchSize, i, results, opInvoked, startedAtI,
                   batchResult>>
    /\ UNCHANGED outsideBatch

\* const batchResults = await Promise.all(...) continues with the values:
\* results = results.concat(batchResults); i += batchSize; the loop goes on.
ResumeFulfilled ==
    /\ bpc = "awaiting"
    /\ batchPromise.state = "fulfilled"
    /\ LoopFrom(i + batchSize,
                results \o [k \in 1..batchPromise.size |->
                               batchPromise.values[k].value],
                numOps, batchSize, opState, opInvoked, startedAtI)
    /\ UNCHANGED <<numOps, batchSize, opOutcome, completionOrder>>
    /\ UNCHANGED outsideBatch

\* await Promise.all(...) throws the rejection reason out of the function.
ResumeRejected ==
    /\ bpc = "awaiting"
    /\ batchPromise.state = "rejected"
    /\ bpc' = "thrown"
    /\ batchResult' = Threw(batchPromise.reason)
    /\ UNCHANGED <<numOps, batchSize, i, results, batchPromise, opState,
                   opInvoked, opOutcome, startedAtI, completionOrder>>
    /\ UNCHANGED outsideBatch

\* ------------------------------------------- texts, payloads and JSON values

\* A text is a sequence of pieces: a white-space character, or a run of
\* characters that neither starts nor ends with white space.
WhiteSpace == {" ", "\n"}

RECURSIVE trimStart(_)
trimStart(s) ==
    IF s # <<>> /\ Head(s) \in WhiteSpace THEN trimStart(Tail(s)) ELSE s

RECURSIVE trimEnd(_)
trimEnd(s) ==
    IF s # <<>> /\ s[Len(s)] \in WhiteSpace
    THEN trimEnd(SubSeq(s, 1, Len(s) - 1))
    ELSE s

\* String.prototype.trim
trim(s) == trimEnd(trimStart(s))

\* JavaScript truthiness of a string: the empty string is falsy.
TruthyString(s) == s # <<>>

\* A nullable value.
Null == [isNull |-> TRUE]
Some(x) == [isNull |-> FALSE, val |-> x]

\* response.text of a generateContent response: a string, or undefined when
\* the response carries no text part.
UndefinedText == [defined |-> FALSE, s |-> <<>>]
Text(s) == [defined |-> TRUE, s |-> s]

\* The TypeError of reading .trim of undefined.
ErrTrimOfUndefined ==
    Thrown(TRUE, <<"r","e","a","d","i","n","g"," ","t","r","i","m">>)
\* new Error("Could not generate a detailed description for the house.")
ErrNoDescription ==
    Thrown(TRUE, <<"C","o","u","l","d"," ","n","o","t"," ","g","e","n","e",
                   "r","a","t","e"," ","a"," ","d","e","t","a","i","l","e","d">>)
\* new Error("Could not generate an updated description for the house.")
ErrNoUpdatedDescription ==
    Thrown(TRUE, <<"C","o","u","l","d"," ","n","o","t"," ","g","e","n","e",
                   "r","a","t","e"," ","a","n"," ","u","p","d","a","t","e","d">>)

\* JSON values.
JStr(s) == [t |-> "string", v |-> s]
JNum(n) == [t |-> "number", v |-> n]
JArr(a) == [t |-> "array", v |-> a]
JObj(o) == [t |-> "object", v |-> o]

\* Texts the structured-content call may answer with, and what JSON.parse
\* makes of each.
JsonCuttingList ==
    "{\"houseName\":\"Hut\",\"description\":\"A hut.\",\"materials\":[{\"name\":\"Cardboard\",\"quantity\":4,\"dimensions\":\"10cm x 10cm\"}]}"
JsonNoMaterials == "{\"houseName\":\"Hut\",\"description\":\"A hut.\"}"
JsonBadMaterial ==
    "{\"houseName\":\"Hut\",\"description\":\"A hut.\",\"materials\":[{\"name\":\"Cardboard\",\"quantity\":\"four\"}]}"
JsonZero == "0"
NotJson == "Sure! Here is your cutting list:"

ValueCuttingList ==
    JObj([houseName |-> JStr("Hut"), description |-> JStr("A hut."),
          materials |-> JArr(<<JObj([name |-> JStr("Cardboard"),
                                     quantity |-> JNum(4),
                                     dimensions |-> JStr("10cm x 10cm")])>>)])
ValueNoMaterials ==
    JObj([houseName |-> JStr("Hut"), description |-> JStr("A hut.")])
ValueBadMaterial ==
    JObj([houseName |-> JStr("Hut"), description |-> JStr("A hut."),
          materials |-> JArr(<<JObj([name |-> JStr("Cardboard"),
                                     quantity |-> JStr("four")])>>)])

ValueZero == JNum(0)

\* JavaScript truthiness of a parsed JSON value: 0 and "" are falsy, objects
\* and arrays are truthy.
TruthyJson(j) ==
    /\ j.t = "number" => j.v # 0
    /\ j.t = "string" => j.v # ""

\* JSON.parse(text): the value, or a SyntaxError.
JSONparse(s) ==
    CASE s = <<JsonCuttingList>> -> [ok |-> TRUE, value |-> ValueCuttingList]
      [] s = <<JsonNoMaterials>> -> [ok |-> TRUE, value |-> ValueNoMaterials]
      [] s = <<JsonBadMaterial>> -> [ok |-> TRUE, value |-> ValueBadMaterial]
      [] s = <<JsonZero>> -> [ok |-> TRUE, value |-> ValueZero]
      [] OTHER -> [ok |-> FALSE, value |-> JStr("SyntaxError")]

\* const VIEWS = [...]
VIEWS == <<"Front view", "Back view", "Left side view", "Right side view",
           "Top-down view">>
\* runPromisesInBatches(imagePromiseFactories, 3)
ImageBatchSize == 3
\* imagePromiseFactories.length: one factory per view and one for the sketch.
NumImageCalls == Len(VIEWS) + 1
SketchCall == NumImageCalls

\* The prompt of the k-th image factory: the description and what to show.
ImagePrompt(d, k) ==
    IF k <= Len(VIEWS)
    THEN [model |-> "imagen", descr |-> d, show |-> VIEWS[k]]
    ELSE [model |-> "imagen", descr |-> d, show |-> "sketch"]

CuttingPromptOfFixedText(d) ==
    [model |-> "gemini", descr |-> <<"a", " ", "house">>, show |-> "cutting list"]
\* The contents of the structured-content request.
CuttingPrompt(d) == [model |-> "gemini", descr |-> d, show |-> "cutting list"]

\* What generateImages may answer to a prompt: no image at all, an image with
\* empty bytes, or an image rendered from the prompt.
NoImage == [present |-> FALSE, bytes |-> <<>>]
EmptyImage == [present |-> TRUE, bytes |-> <<>>]
ImageOf(p) == [present |-> TRUE, bytes |-> <<"jpeg">> \o p.descr \o <<p.show>>]
ImageResponses(p) == {NoImage, EmptyImage, ImageOf(p)}

\* res.generatedImages?.[0]?.image?.imageBytes ?? null
Base64Of(res) == IF res.present THEN Some(res.bytes) ELSE Null

\* .then(res => ({ type: 'view', label: view, base64: ... }))  and
\* .then(res => ({ type: 'sketch', base64: ... }))
ImageResult(k, res) ==
    IF k <= Len(VIEWS)
    THEN [type |-> "view", label |-> VIEWS[k], base64 |-> Base64Of(res)]
    ELSE [type |-> "sketch", label |-> "", base64 |-> Base64Of(res)]

\* !!result.base64  and  sketchResult?.base64 ? ... : null
TruthyBase64(b) == ~b.isNull /\ TruthyString(b.val)

\* `data:image/jpeg;base64,${base64}`
DataUrl(bytes) == <<"data:image/jpeg;base64,">> \o bytes

KeepsResultWhateverItsType(r) == TruthyBase64(r.base64)
\* result.type === 'view' && !!result.base64
KeepsResult(r) == r.type = "view" /\ TruthyBase64(r.base64)

\* allImageResults.filter(...).map(result => ({ label, url }))
ImageViewsOf(allImageResults) ==
    LET kept == SelectSeq(allImageResults, KeepsResult)
    IN  [k \in 1..Len(kept) |->
            [label |-> kept[k].label, url |-> DataUrl(kept[k].base64.val)]]

SketchUrlOfFirstResult(allImageResults) ==
    IF allImageResults # <<>> /\ TruthyBase64(allImageResults[1].base64)
    THEN Some(DataUrl(allImageResults[1].base64.val))
    ELSE Null
\* allImageResults.find(r => r.type === 'sketch'), then the sketch's data URL.
SketchUrlOf(allImageResults) ==
    LET found == SelectSeq(allImageResults, LAMBDA r : r.type = "sketch")
    IN  IF found # <<>> /\ TruthyBase64(found[1].base64)
        THEN Some(DataUrl(found[1].base64.val))
        ELSE Null

CuttingListOfUncaught(response) ==
    IF response.defined /\ TruthyString(trim(response.s))
    THEN Some(JSONparse(trim(response.s)).value)
    ELSE Null
\* let cuttingList = null; try { jsonText = response.text.trim();
\* if (jsonText) cuttingList = JSON.parse(jsonText) } catch (e) { log }
CuttingListOf(response) ==
    IF ~response.defined
    THEN Null
    ELSE LET jsonText == trim(response.s)
         IN  IF TruthyString(jsonText) /\ JSONparse(jsonText).ok
             THEN Some(JSONparse(jsonText).value)
             ELSE Null

EmptyListIfNone(views) == Some(views)
\* imageViews.length > 0 ? imageViews : null
NullIfNone(views) ==
    IF Len(views) > 0 THEN Some(views) ELSE Null

\* return { imageViews, sketchUrl, cuttingList, detailedDescription }
CycleResultOf(allImageResults, cuttingListResponse, d) ==
    [imageViews |-> NullIfNone(ImageViewsOf(allImageResults)),
     sketchUrl |-> SketchUrlOf(allImageResults),
     cuttingList |-> CuttingListOf(cuttingListResponse),
     detailedDescription |-> Some(d)]

\* ------------------------------------- one cycle: the orchestration functions

\* A runPromisesInBatches call as a value: the loop of LoopFrom on a record.
NewRunner ==
    [bpc |-> "idle", i |-> 0, results |-> <<>>, batchPromise |-> NoPromise,
     batchResult |-> NoResult]

\* The loop from its test, entered with i = iv and results = res, up to the
\* next await (the chunk at iv is started) or the return.
RunnerLoop(r, iv, res, n, bs) ==
    IF iv < n
    THEN [r EXCEPT !.bpc = "awaiting", !.i = iv, !.results = res,
                   !.batchPromise =
                       PromiseAllNew(iv, Cardinality(Slice(iv, bs, n)))]
    ELSE [r EXCEPT !.bpc = "returned", !.i = iv, !.results = res,
                   !.batchResult = Returned(res)]

\* The factories a step from runner r0 to runner r1 has invoked.
StartedBy(r0, r1, n, bs) ==
    IF r1.bpc = "awaiting" /\ (r0.bpc # "awaiting" \/ r0.i # r1.i)
    THEN Slice(r1.i, bs, n)
    ELSE {}

\* The j-th operation fulfils with v: Promise.all reacts and, when it fulfils,
\* the await continues (concat, i += batchSize, the loop).
RunnerOnFulfil(r, j, v, n, bs) ==
    LET bp == IF j \in Slice(r.batchPromise.base, r.batchPromise.size, n)
              THEN PromiseAllOnFulfil(r.batchPromise, j - r.batchPromise.base,
                                      Fulfilled(v))
              ELSE r.batchPromise
        r1 == [r EXCEPT !.batchPromise = bp]
    IN  IF r.bpc = "awaiting" /\ bp.state = "fulfilled"
        THEN RunnerLoop(r1, r.i + bs,
                        r.results \o [k \in 1..bp.size |-> bp.values[k].value],
                        n, bs)
        ELSE r1

RunnerOnRejectDegrades(r, j, e, n, bs) ==
    RunnerOnFulfil(r, j, ImageResult(j, NoImage), n, bs)
\* The j-th operation rejects with e: Promise.all reacts and, when it rejects,
\* the await throws its reason out of the function.
RunnerOnReject(r, j, e, n, bs) ==
    LET bp == IF j \in Slice(r.batchPromise.base, r.batchPromise.size, n)
              THEN PromiseAllOnReject(r.batchPromise, e)
              ELSE r.batchPromise
        r1 == [r EXCEPT !.batchPromise = bp]
    IN  IF r.bpc = "awaiting" /\ bp.state = "rejected"
        THEN [r1 EXCEPT !.bpc = "thrown", !.batchResult = Threw(bp.reason)]
        ELSE r1

\* EditPreferences with every field empty (the EditForm's initial state).
NoEdits == [primaryColor |-> <<>>, secondaryColor |-> <<>>,
            roofMaterial |-> <<>>, featureHighlights |-> <<>>]

\* The callApiWithRetry calls of one cycle: the text-generation call, the
\* image calls in factory order, the structured-content call.
DescriptionCall == 1
ImageCall(k) == DescriptionCall + k
CuttingCall == DescriptionCall + NumImageCalls + 1
RemoteCalls == DescriptionCall..CuttingCall

\* A cycle: one call of generateHouseDesign or editHouseDesign, with its
\* arguments (prompt, or originalDescription and edits). attempt[n] is the
\* local `attempt' of the n-th callApiWithRetry call (let attempt = 0),
\* stepped by the actions that take the wrapper attempt by attempt.
UnusedCycle ==
    [pc |-> "unused", kind |-> "none", userPrompt |-> <<>>,
     originalDescription |-> <<>>, edits |-> NoEdits, contents |-> <<>>,
     described |-> NoResult, descr |-> <<>>,
     img |-> <<>>,
     cut |-> [state |-> "unbuilt", prompt |-> CuttingPrompt(<<>>),
              res |-> UndefinedText, reason |-> Null],
     runner |-> NewRunner, outer |-> NoPromise, result |-> NoResult,
     attempt |-> [n \in RemoteCalls |-> 0]]

\* The contents of generateHouseDesign's text-generation request.
DescribePrompt(userPrompt) ==
    <<"Based on the user's idea, create a detailed and consistent architectural description for a miniature house.",
      " ", "User's idea: \"">> \o userPrompt \o <<"\"">>

\* One directive line of editHouseDesign: if (edits.f) editPrompt += `...`.
Directive(lead, field) ==
    IF TruthyString(field)
    THEN <<lead, " ">> \o field \o <<".", "\n">>
    ELSE <<>>

\* The editPrompt of editHouseDesign.
EditPrompt(originalDescription, edits) ==
    <<"Based on this original house description, please generate a new, complete architectural description that incorporates the following changes.",
      "\n", "\n", "Original Description: \"">>
       \o originalDescription
       \o <<"\"", "\n", "\n", "Requested Changes:", "\n">>
       \o Directive("- Change the primary color to", edits.primaryColor)
       \o Directive("- Change the secondary color to", edits.secondaryColor)
       \o Directive("- Change the roof to be made of or look like",
                    edits.roofMaterial)
       \o Directive("- Also, incorporate this request:",
                    edits.featureHighlights)

\* The cycle fails to its caller.
CycleThrows(cy, e) == [cy EXCEPT !.pc = "thrown", !.result = Threw(e)]

SettleCycleOnImagesAlone(cy) ==
    IF cy.pc # "assets" THEN cy
    ELSE IF cy.runner.bpc = "returned"
    THEN [cy EXCEPT !.pc = "returned",
                    !.result = Returned(CycleResultOf(cy.runner.results,
                                                      cy.cut.res, cy.descr))]
    ELSE IF cy.outer.state = "rejected"
    THEN CycleThrows(cy, cy.outer.reason)
    ELSE cy
\* The await of Promise.all([imageBatchPromise, cuttingListPromise]) in
\* generateAssetsFromDescription continues: results are processed and
\* returned, or the rejection is thrown.
SettleCycle(cy) ==
    IF cy.pc # "assets" THEN cy
    ELSE IF cy.outer.state = "fulfilled"
    THEN [cy EXCEPT !.pc = "returned",
                    !.result = Returned(CycleResultOf(cy.outer.values[1].value,
                                                      cy.outer.values[2].value,
                                                      cy.descr))]
    ELSE IF cy.outer.state = "rejected"
    THEN CycleThrows(cy, cy.outer.reason)
    ELSE cy

\* What follows a step of the image runner from r0 to r1 inside cycle cy:
\* the factories it invoked are in flight, its settlement reaches the outer
\* Promise.all (imageBatchPromise is its first element), and the cycle
\* settles if that settles the outer Promise.all.
AfterRunnerStep(cy, r0, r1) ==
    LET started == StartedBy(r0, r1, NumImageCalls, ImageBatchSize)
        outer1 ==
            IF r0.bpc = "awaiting" /\ r1.bpc = "returned"
            THEN PromiseAllOnFulfil(cy.outer, 1, Fulfilled(r1.results))
            ELSE IF r0.bpc = "awaiting" /\ r1.bpc = "thrown"
            THEN PromiseAllOnReject(cy.outer, r1.batchResult.value)
            ELSE cy.outer
    IN  SettleCycle(
            [cy EXCEPT !.runner = r1,
                       !.outer = outer1,
                       !.img = [k \in DOMAIN cy.img |->
                                   IF k \in started
                                   THEN [cy.img[k] EXCEPT !.state = "inflight"]
                                   ELSE cy.img[k]]])

\* generateAssetsFromDescription(detailedDescription) up to its await: the
\* factories are built, the structured-content call is started, the runner
\* is called (it starts the first chunk), and Promise.all is awaited.
generateAssetsFromDescription(cy, d) ==
    LET built == [cy EXCEPT
                     !.pc = "assets",
                     !.descr = d,
                     !.img = [k \in 1..NumImageCalls |->
                                 [state |-> "deferred",
                                  prompt |-> ImagePrompt(d, k),
                                  res |-> NoImage, reason |-> Null]],
                     !.cut = [state |-> "inflight", prompt |-> CuttingPrompt(d),
                              res |-> UndefinedText, reason |-> Null],
                     !.outer = PromiseAllNew(0, 2)]
    IN  AfterRunnerStep(built, NewRunner,
                        RunnerLoop(NewRunner, 0, <<>>, NumImageCalls,
                                   ImageBatchSize))

AcceptsAnyDescription(d) == FALSE
\* if (!detailedDescription)
RejectsDescription(d) == ~TruthyString(d)

\* generateHouseDesign / editHouseDesign after the text-generation call
\* fulfilled with `response': trim, test, delegate.
OnDescription(cy, response) ==
    LET got == [cy EXCEPT !.described = Returned(response)]
    IN  IF ~response.defined
        THEN CycleThrows(got, ErrTrimOfUndefined)
        ELSE LET d == trim(response.s)
             IN  IF RejectsDescription(d)
                 THEN CycleThrows(got, IF cy.kind = "edit"
                                       THEN ErrNoUpdatedDescription
                                       ELSE ErrNoDescription)
                 ELSE generateAssetsFromDescription(got, d)

\* The text-generation call rejected with e: the await rethrows it.
OnDescriptionRejected(cy, e) ==
    CycleThrows([cy EXCEPT !.described = Threw(e)], e)

\* The k-th image call (retry wrapper included) fulfils with `res'.
OnImageFulfilled(cy, k, res) ==
    AfterRunnerStep(
        [cy EXCEPT !.img[k].state = "fulfilled", !.img[k].res = res],
        cy.runner,
        RunnerOnFulfil(cy.runner, k, ImageResult(k, res), NumImageCalls,
                       ImageBatchSize))

\* The k-th image call (retry wrapper included) rejects with e.
OnImageRejected(cy, k, e) ==
    AfterRunnerStep(
        [cy EXCEPT !.img[k].state = "rejected", !.img[k].reason = Some(e)],
        cy.runner,
        RunnerOnReject(cy.runner, k, e, NumImageCalls, ImageBatchSize))

\* The structured-content call fulfils: cuttingListPromise is the second
\* element of the outer Promise.all.
OnCuttingFulfilled(cy, response) ==
    SettleCycle([cy EXCEPT !.cut.state = "fulfilled",
                           !.cut.res = response,
                           !.outer = PromiseAllOnFulfil(cy.outer, 2,
                                                        Fulfilled(response))])

\* The structured-content call rejects.
OnCuttingRejected(cy, e) ==
    SettleCycle([cy EXCEPT !.cut.state = "rejected",
                           !.cut.reason = Some(e),
                           !.outer = PromiseAllOnReject(cy.outer, e)])

\* ------------------------------------------------------------------- App

\* Most cycles one session starts.
MaxCycles == 2
CycleIds == 1..MaxCycles

\* getFriendlyErrorMessage(error)
getFriendlyErrorMessage(e) ==
    IF e.isError
    THEN LET message == toLowerCase(e.message)
         IN  IF \/ includes(message, <<"a","p","i"," ","k","e","y"," ","n","o","t",
                                       " ","v","a","l","i","d">>)
                \/ includes(message, <<"a","p","i","_","k","e","y","_","i","n","v",
                                       "a","l","i","d">>)
                \/ includes(message, <<"p","e","r","m","i","s","s","i","o","n"," ",
                                       "d","e","n","i","e","d">>)
             THEN <<"There's a problem with the connection">>
             ELSE IF includes(message, <<"q","u","o","t","a">>)
             THEN <<"The Dream Builder is very popular right now">>
             ELSE IF \/ includes(message, <<"s","a","f","e","t","y">>)
                     \/ includes(message, <<"b","l","o","c","k","e","d">>)
             THEN <<"Your idea is super creative, but">>
             ELSE <<"The blueprint machine had a little hiccup: ">> \o e.message
    ELSE <<"Oh no! The blueprint machine got stuck.">>

InitApp ==
    /\ prompt = <<>>
    /\ isLoading = FALSE
    /\ error = Null
    /\ imageViews = Null
    /\ sketchUrl = Null
    /\ cuttingList = Null
    /\ activeView = "design"
    /\ detailedDescription = Null
    /\ isEditing = FALSE

InitCycles ==
    /\ cycles = [c \in CycleIds |-> UnusedCycle]
    /\ awaited = 0

\* const hasContent = imageViews || sketchUrl || cuttingList;
hasContent == ~imageViews.isNull \/ ~sketchUrl.isNull \/ ~cuttingList.isNull

\* The cycle a new call of generateHouseDesign / editHouseDesign becomes.
FreshCycles == {c \in CycleIds : cycles[c].pc = "unused"}
NextCycle == CHOOSE c \in FreshCycles : \A d \in FreshCycles : c <= d

\* generateHouseDesign(prompt) up to its await of the text-generation call.
generateHouseDesign(userPrompt) ==
    [UnusedCycle EXCEPT !.pc = "describing", !.kind = "generate",
                        !.userPrompt = userPrompt,
                        !.contents = DescribePrompt(userPrompt)]

editHouseDesignSkippingNoEdits(originalDescription, edits) ==
    IF edits = NoEdits
    THEN [UnusedCycle EXCEPT
             !.pc = "returned", !.kind = "edit",
             !.originalDescription = originalDescription,
             !.edits = edits,
             !.contents = EditPrompt(originalDescription, edits),
             !.result =
                 Returned([imageViews |-> Null, sketchUrl |-> Null,
                           cuttingList |-> Null,
                           detailedDescription |-> Some(originalDescription)])]
    ELSE [UnusedCycle EXCEPT
             !.pc = "describing", !.kind = "edit",
             !.originalDescription = originalDescription,
             !.edits = edits,
             !.contents = EditPrompt(originalDescription, edits)]
\* editHouseDesign(originalDescription, edits) up to its await.
editHouseDesign(originalDescription, edits) ==
    [UnusedCycle EXCEPT !.pc = "describing", !.kind = "edit",
                        !.originalDescription = originalDescription,
                        !.edits = edits,
                        !.contents = EditPrompt(originalDescription, edits)]

\* handleGenerationResult(result); finally setIsLoading(false)
AppTakesResult(result) ==
    /\ imageViews' = IF ~result.imageViews.isNull THEN result.imageViews
                     ELSE imageViews
    /\ sketchUrl' = IF ~result.sketchUrl.isNull THEN result.sketchUrl
                    ELSE sketchUrl
    /\ cuttingList' = IF ~result.cuttingList.isNull
                         /\ TruthyJson(result.cuttingList.val)
                      THEN result.cuttingList
                      ELSE cuttingList
    /\ detailedDescription' =
          IF ~result.detailedDescription.isNull
             /\ TruthyString(result.detailedDescription.val)
          THEN result.detailedDescription
          ELSE detailedDescription
    /\ isLoading' = FALSE
    /\ UNCHANGED <<prompt, error, activeView, isEditing>>

\* catch (e) { setError(getFriendlyErrorMessage(e)) } finally setIsLoading(false)
AppTakesFailure(e) ==
    /\ error' = Some(getFriendlyErrorMessage(e))
    /\ isLoading' = FALSE
    /\ UNCHANGED <<prompt, imageViews, sketchUrl, cuttingList, activeView,
                   detailedDescription, isEditing>>

\* A step of a remote call turns cycle c into cy1; when that settles the
\* cycle a handler awaits, the handler continues in the same task.
RemoteStep(c, cy1) ==
    /\ cycles' = [cycles EXCEPT ![c] = cy1]
    /\ IF awaited = c /\ cy1.pc = "returned"
       THEN awaited' = 0 /\ AppTakesResult(cy1.result.value)
       ELSE IF awaited = c /\ cy1.pc = "thrown"
       THEN awaited' = 0 /\ AppTakesFailure(cy1.result.value)
       ELSE UNCHANGED <<awaited, appVars>>
    /\ UNCHANGED outsideCycle

\* The text-generation call of cycle c fulfils.
DescriptionCallFulfils(c, response) ==
    /\ cycles[c].pc = "describing"
    /\ RemoteStep(c, OnDescription(cycles[c], response))

\* The text-generation call of cycle c rejects: the await rethrows.
DescriptionCallRejects(c, e) ==
    /\ cycles[c].pc = "describing"
    /\ RemoteStep(c, OnDescriptionRejected(cycles[c], e))

ImageInFlight(c) ==
    {k \in DOMAIN cycles[c].img : cycles[c].img[k].state = "inflight"}

\* An image call of cycle c fulfils.
ImageCallFulfils(c, k, res) ==
    /\ k \in ImageInFlight(c)
    /\ RemoteStep(c, OnImageFulfilled(cycles[c], k, res))

\* An image call of cycle c rejects.
ImageCallRejects(c, k, e) ==
    /\ k \in ImageInFlight(c)
    /\ RemoteStep(c, OnImageRejected(cycles[c], k, e))

\* The structured-content call of cycle c fulfils.
CuttingCallFulfils(c, response) ==
    /\ cycles[c].cut.state = "inflight"
    /\ RemoteStep(c, OnCuttingFulfilled(cycles[c], response))

\* The structured-content call of cycle c rejects.
CuttingCallRejects(c, e) ==
    /\ cycles[c].cut.state = "inflight"
    /\ RemoteStep(c, OnCuttingRejected(cycles[c], e))

\* ---- one cycle called directly

\* The failures a remote call of a cycle may end with (one the retry wrapper
\* gives up on, one it never retries).
CycleFailures == {ErrQuota, ErrAuth}
UserPrompts == {<<"a", " ", "hut">>}
DescriptionTexts ==
    {Text(<<" ", "d1", "\n">>), Text(<<>>), Text(<<" ", "\n">>),
     UndefinedText}
EditsArgs == {NoEdits, [NoEdits EXCEPT !.primaryColor = <<"red">>]}
CuttingTexts ==
    {Text(<<JsonCuttingList>>), Text(<<" ", JsonCuttingList, "\n">>),
     Text(<<JsonNoMaterials>>), Text(<<JsonBadMaterial>>), Text(<<JsonZero>>),
     Text(<<NotJson>>), Text(<<>>), UndefinedText}

CallGenerateHouseDesign ==
    /\ \A c \in CycleIds : cycles[c].pc = "unused"
    /\ \E p \in UserPrompts :
          cycles' = [cycles EXCEPT ![1] = generateHouseDesign(p)]
    /\ UNCHANGED <<awaited, appVars>>
    /\ UNCHANGED outsideCycle

CallEditHouseDesign ==
    /\ \A c \in CycleIds : cycles[c].pc = "unused"
    /\ \E edits \in EditsArgs :
          cycles' = [cycles EXCEPT ![1] = editHouseDesign(<<"d0">>, edits)]
    /\ UNCHANGED <<awaited, appVars>>
    /\ UNCHANGED outsideCycle

CycleDescriptionFulfils ==
    \E response \in DescriptionTexts : DescriptionCallFulfils(1, response)
CycleDescriptionRejects ==
    \E e \in CycleFailures : DescriptionCallRejects(1, e)
CycleImageFulfils ==
    \E k \in ImageInFlight(1) :
       \E res \in ImageResponses(cycles[1].img[k].prompt) :
          ImageCallFulfils(1, k, res)
CycleImageRejects ==
    \E k \in ImageInFlight(1), e \in CycleFailures : ImageCallRejects(1, k, e)
CycleCuttingFulfils ==
    \E response \in CuttingTexts : CuttingCallFulfils(1, response)
CycleCuttingRejects ==
    \E e \in CycleFailures : CuttingCallRejects(1, e)

\* ---- one edit called directly, over the fields a form may hold

\* What one field of the edit form may hold: nothing, white space only, a
\* word, a word between spaces.
EditFieldTexts == {<<>>, <<" ">>, <<"red">>, <<" ", "red", " ">>}
FormEdits ==
    [primaryColor : EditFieldTexts, secondaryColor : EditFieldTexts,
     roofMaterial : EditFieldTexts, featureHighlights : EditFieldTexts]

CallEditHouseDesignFromForm ==
    /\ \A c \in CycleIds : cycles[c].pc = "unused"
    /\ \E edits \in FormEdits :
          cycles' = [cycles EXCEPT ![1] = editHouseDesign(<<"d0">>, edits)]
    /\ UNCHANGED <<awaited, appVars>>
    /\ UNCHANGED outsideCycle

\* ---- a session: the App's handlers

SessionPrompts == {<<"a", " ", "hut">>, <<" ">>}
SessionFailures == {ErrAuth}
SessionDescriptionTexts == {Text(<<"d1">>), Text(<<" ">>)}
SessionCuttingTexts ==
    {Text(<<JsonCuttingList>>), Text(<<JsonZero>>), Text(<<NotJson>>)}
SessionImageResponses(p) == {ImageOf(p)}
SessionEdits == {NoEdits}

\* The textarea's onChange: setPrompt(e.target.value).
SetPrompt ==
    /\ ~isEditing
    /\ ~isLoading
    /\ \E p \in SessionPrompts : prompt' = p
    /\ UNCHANGED <<isLoading, error, imageViews, sketchUrl, cuttingList,
                   activeView, detailedDescription, isEditing>>
    /\ UNCHANGED cycleVars
    /\ UNCHANGED outsideCycle

handleSubmitKeepingError ==
    /\ ~isEditing
    /\ FreshCycles # {}
    /\ ~(~TruthyString(trim(prompt)) \/ isLoading)
    /\ isLoading' = TRUE
    /\ imageViews' = Null
    /\ sketchUrl' = Null
    /\ cuttingList' = Null
    /\ detailedDescription' = Null
    /\ isEditing' = FALSE
    /\ activeView' = "design"
    /\ cycles' = [cycles EXCEPT ![NextCycle] = generateHouseDesign(prompt)]
    /\ awaited' = NextCycle
    /\ UNCHANGED <<prompt, error>>
    /\ UNCHANGED outsideCycle
handleSubmitUnguarded ==
    /\ ~isEditing
    /\ FreshCycles # {}
    /\ isLoading' = TRUE
    /\ error' = Null
    /\ imageViews' = Null
    /\ sketchUrl' = Null
    /\ cuttingList' = Null
    /\ detailedDescription' = Null
    /\ isEditing' = FALSE
    /\ activeView' = "design"
    /\ cycles' = [cycles EXCEPT ![NextCycle] = generateHouseDesign(prompt)]
    /\ awaited' = NextCycle
    /\ UNCHANGED prompt
    /\ UNCHANGED outsideCycle
\* handleSubmit, invoked whenever PromptInput is mounted (the disabled
\* attributes of its controls are not relied on), up to its await.
handleSubmit ==
    /\ ~isEditing
    /\ FreshCycles # {}
    /\ ~(~TruthyString(trim(prompt)) \/ isLoading)
    /\ isLoading' = TRUE
    /\ error' = Null
    /\ imageViews' = Null
    /\ sketchUrl' = Null
    /\ cuttingList' = Null
    /\ detailedDescription' = Null
    /\ isEditing' = FALSE
    /\ activeView' = "design"
    /\ cycles' = [cycles EXCEPT ![NextCycle] = generateHouseDesign(prompt)]
    /\ awaited' = NextCycle
    /\ UNCHANGED prompt
    /\ UNCHANGED outsideCycle

handleEditSubmitClearingDescription ==
    /\ isEditing
    /\ FreshCycles # {}
    /\ ~(detailedDescription.isNull \/ isLoading)
    /\ TruthyString(detailedDescription.val)
    /\ \E preferences \in SessionEdits :
          cycles' = [cycles EXCEPT ![NextCycle] =
                        editHouseDesign(detailedDescription.val, preferences)]
    /\ isLoading' = TRUE
    /\ error' = Null
    /\ imageViews' = Null
    /\ sketchUrl' = Null
    /\ cuttingList' = Null
    /\ detailedDescription' = Null
    /\ isEditing' = FALSE
    /\ activeView' = "design"
    /\ awaited' = NextCycle
    /\ UNCHANGED prompt
    /\ UNCHANGED outsideCycle
\* handleEditSubmit(preferences), invoked whenever EditForm is mounted, up to
\* its await.
handleEditSubmit ==
    /\ isEditing
    /\ FreshCycles # {}
    /\ ~(detailedDescription.isNull \/ isLoading)
    /\ TruthyString(detailedDescription.val)
    /\ \E preferences \in SessionEdits :
          cycles' = [cycles EXCEPT ![NextCycle] =
                        editHouseDesign(detailedDescription.val, preferences)]
    /\ isLoading' = TRUE
    /\ error' = Null
    /\ imageViews' = Null
    /\ sketchUrl' = Null
    /\ cuttingList' = Null
    /\ isEditing' = FALSE
    /\ activeView' = "design"
    /\ awaited' = NextCycle
    /\ UNCHANGED <<prompt, detailedDescription>>
    /\ UNCHANGED outsideCycle

\* handleUndo: clearContent(). The Undo button is rendered when
\* hasContent && !isLoading, inside PromptInput.
handleUndo ==
    /\ ~isEditing
    /\ hasContent /\ ~isLoading
    /\ imageViews' = Null
    /\ sketchUrl' = Null
    /\ cuttingList' = Null
    /\ detailedDescription' = Null
    /\ error' = Null
    /\ isEditing' = FALSE
    /\ UNCHANGED <<prompt, isLoading, activeView>>
    /\ UNCHANGED cycleVars
    /\ UNCHANGED outsideCycle

EditDesignWithoutContent ==
    /\ ~isLoading /\ ~isEditing
    /\ isEditing' = TRUE
    /\ UNCHANGED <<prompt, isLoading, error, imageViews, sketchUrl,
                   cuttingList, activeView, detailedDescription>>
    /\ UNCHANGED cycleVars
    /\ UNCHANGED outsideCycle
\* The Edit Design button: rendered when hasContent && !isLoading && !isEditing.
EditDesign ==
    /\ hasContent /\ ~isLoading /\ ~isEditing
    /\ isEditing' = TRUE
    /\ UNCHANGED <<prompt, isLoading, error, imageViews, sketchUrl,
                   cuttingList, activeView, detailedDescription>>
    /\ UNCHANGED cycleVars
    /\ UNCHANGED outsideCycle

\* EditForm's Cancel: onCancel = () => setIsEditing(false).
CancelEdit ==
    /\ isEditing
    /\ isEditing' = FALSE
    /\ UNCHANGED <<prompt, isLoading, error, imageViews, sketchUrl,
                   cuttingList, activeView, detailedDescription>>
    /\ UNCHANGED cycleVars
    /\ UNCHANGED outsideCycle

\* A TabButton: rendered beside Edit Design, for a view that has content.
SelectTab ==
    /\ hasContent /\ ~isLoading /\ ~isEditing
    /\ \/ ~imageViews.isNull /\ activeView' = "design"
       \/ ~sketchUrl.isNull /\ activeView' = "sketch"
    /\ UNCHANGED <<prompt, isLoading, error, imageViews, sketchUrl,
                   cuttingList, detailedDescription, isEditing>>
    /\ UNCHANGED cycleVars
    /\ UNCHANGED outsideCycle

\* ---- one session with callApiWithRetry taken attempt by attempt

\* catch (error) { attempt++; ... } of the n-th callApiWithRetry call of cy.
AttemptFailed(cy, n) == [cy EXCEPT !.attempt[n] = @ + 1]

\* An attempt of the text-generation call of cycle c rejects with e: the
\* wrapper rethrows (the await in the cycle rethrows), or sleeps and calls
\* apiCall again.
DescriptionAttemptFails(c, e) ==
    /\ cycles[c].pc = "describing"
    /\ LET cy == AttemptFailed(cycles[c], DescriptionCall)
       IN  IF ShouldRethrow(cy.attempt[DescriptionCall], DefaultMaxRetries, e)
           THEN RemoteStep(c, OnDescriptionRejected(cy, e))
           ELSE RemoteStep(c, cy)

\* An attempt of the k-th image call of cycle c rejects with e.
ImageAttemptFails(c, k, e) ==
    /\ k \in ImageInFlight(c)
    /\ LET cy == AttemptFailed(cycles[c], ImageCall(k))
       IN  IF ShouldRethrow(cy.attempt[ImageCall(k)], DefaultMaxRetries, e)
           THEN RemoteStep(c, OnImageRejected(cy, k, e))
           ELSE RemoteStep(c, cy)

\* An attempt of the structured-content call of cycle c rejects with e.
CuttingAttemptFails(c, e) ==
    /\ cycles[c].cut.state = "inflight"
    /\ LET cy == AttemptFailed(cycles[c], CuttingCall)
       IN  IF ShouldRethrow(cy.attempt[CuttingCall], DefaultMaxRetries, e)
           THEN RemoteStep(c, OnCuttingRejected(cy, e))
           ELSE RemoteStep(c, cy)

\* Most attempts that fail in one session.
MaxFailedAttempts == 3

\* The sum of f over S.
RECURSIVE SumOver(_, _)
SumOver(f, S) ==
    IF S = {} THEN 0
    ELSE LET x == CHOOSE y \in S : TRUE IN f[x] + SumOver(f, S \ {x})

\* The attempts that have failed so far.
FailedAttempts ==
    SumOver([c \in CycleIds |-> SumOver(cycles[c].attempt, RemoteCalls)],
            CycleIds)

\* What an attempt ends with: one answer per call, or a failure the wrapper
\* retries until its attempts are used up.
AttemptFailures == {ErrQuota}
AttemptDescriptionTexts == {Text(<<"d1">>)}
AttemptCuttingTexts == {Text(<<JsonCuttingList>>)}

DescriptionAttemptEnds(c) ==
    \/ \E response \in AttemptDescriptionTexts :
          DescriptionCallFulfils(c, response)
    \/ /\ FailedAttempts < MaxFailedAttempts
       /\ \E e \in AttemptFailures : DescriptionAttemptFails(c, e)
ImageAttemptEnds(c, k) ==
    \/ ImageCallFulfils(c, k, ImageOf(cycles[c].img[k].prompt))
    \/ /\ FailedAttempts < MaxFailedAttempts
       /\ \E e \in AttemptFailures : ImageAttemptFails(c, k, e)
CuttingAttemptEnds(c) ==
    \/ \E response \in AttemptCuttingTexts : CuttingCallFulfils(c, response)
    \/ /\ FailedAttempts < MaxFailedAttempts
       /\ \E e \in AttemptFailures : CuttingAttemptFails(c, e)

SessionDescriptionAttemptEnds == \E c \in CycleIds : DescriptionAttemptEnds(c)
SessionImageAttemptEnds ==
    \E c \in CycleIds : \E k \in ImageInFlight(c) : ImageAttemptEnds(c, k)
SessionCuttingAttemptEnds == \E c \in CycleIds : CuttingAttemptEnds(c)

SessionDescriptionFulfils ==
    \E c \in CycleIds, response \in SessionDescriptionTexts :
       DescriptionCallFulfils(c, response)
SessionDescriptionRejects ==
    \E c \in CycleIds, e \in SessionFailures : DescriptionCallRejects(c, e)
SessionImageFulfils ==
    \E c \in CycleIds :
       \E k \in ImageInFlight(c) :
          \E res \in SessionImageResponses(cycles[c].img[k].prompt) :
             ImageCallFulfils(c, k, res)
SessionImageRejects ==
    \E c \in CycleIds :
       \E k \in ImageInFlight(c), e \in SessionFailures :
          ImageCallRejects(c, k, e)
SessionCuttingFulfils ==
    \E c \in CycleIds, response \in SessionCuttingTexts :
       CuttingCallFulfils(c, response)
SessionCuttingRejects ==
    \E c \in CycleIds, e \in SessionFailures : CuttingCallRejects(c, e)

\* ---------------------------------------------------------- specifications

Init == InitRetry /\ InitBatch /\ InitCycles /\ InitApp

NextRetry ==
    \/ callApiWithRetry
    \/ ApiCallResolves
    \/ ApiCallRejectsRethrow
    \/ ApiCallRejectsBackoff
    \/ TimerFires

NextBatch ==
    \/ runPromisesInBatches
    \/ OpResolves
    \/ OpRejects
    \/ ResumeFulfilled
    \/ ResumeRejected

NextCycleStep ==
    \/ CallGenerateHouseDesign
    \/ CallEditHouseDesign
    \/ CycleDescriptionFulfils
    \/ CycleDescriptionRejects
    \/ CycleImageFulfils
    \/ CycleImageRejects
    \/ CycleCuttingFulfils
    \/ CycleCuttingRejects

NextSession ==
    \/ SetPrompt
    \/ handleSubmit
    \/ handleEditSubmit
    \/ handleUndo
    \/ EditDesign
    \/ CancelEdit
    \/ SelectTab
    \/ SessionDescriptionFulfils
    \/ SessionDescriptionRejects
    \/ SessionImageFulfils
    \/ SessionImageRejects
    \/ SessionCuttingFulfils
    \/ SessionCuttingRejects

NextEdit ==
    \/ CallEditHouseDesignFromForm
    \/ SessionDescriptionFulfils
    \/ SessionDescriptionRejects
    \/ SessionImageFulfils
    \/ SessionImageRejects
    \/ SessionCuttingFulfils
    \/ SessionCuttingRejects

NextAttempts ==
    \/ SetPrompt
    \/ handleSubmit
    \/ handleEditSubmit
    \/ handleUndo
    \/ EditDesign
    \/ CancelEdit
    \/ SelectTab
    \/ SessionDescriptionAttemptEnds
    \/ SessionImageAttemptEnds
    \/ SessionCuttingAttemptEnds

\* An attempt of a remote call ends: the request is answered or fails, and
\* the wrapper's sleep is a timer that fires.
AttemptEnds ==
    \/ SessionDescriptionAttemptEnds
    \/ SessionImageAttemptEnds
    \/ SessionCuttingAttemptEnds

\* A callApiWithRetry call has not settled: AttemptEnds is enabled.
AttemptInFlight ==
    \E c \in CycleIds :
       \/ cycles[c].pc = "describing"
       \/ ImageInFlight(c) # {}
       \/ cycles[c].cut.state = "inflight"

\* Weak fairness of AttemptEnds, its enabling condition written out: while
\* a call is unsettled, one of the attempts in flight ends.
AttemptsEndFairly ==
    []<>(~AttemptInFlight) \/ []<><<AttemptEnds>>_vars

\* One callApiWithRetry call, from the call to its settlement.
SpecRetry == Init /\ [][NextRetry]_vars

\* One runPromisesInBatches call, from the call to its settlement and on to
\* the settlement of every operation it started.
SpecBatch == Init /\ [][NextBatch]_vars

\* One generateHouseDesign or editHouseDesign call, from the call to the
\* settlement of every remote call it starts.
SpecCycle == Init /\ [][NextCycleStep]_vars

\* One editHouseDesign call with the preferences of a form, from the call to
\* the settlement of every remote call it starts.
SpecEdit == Init /\ [][NextEdit]_vars

\* One session of the App: its handlers and the remote calls of its cycles.
SpecSession == Init /\ [][NextSession]_vars

\* One session of the App with every callApiWithRetry call of its cycles
\* taken attempt by attempt, every attempt ending.
SpecAttempts == Init /\ [][NextAttempts]_vars /\ AttemptsEndFairly

\* ------------------------------------------------- claims: callApiWithRetry

IsFailure(o) == ~o.ok
IsRateLimited(o) == ~o.ok /\ isRateLimitError(o.value)
RetrySettled == rpc \in {"returned", "thrown"}
RetryRunning == rpc \in {"calling", "sleeping"}

\* C3: when the operation's failure is not classified as rate-limited, the
\* operation has been invoked exactly once, no delay has been waited for, and
\* the call has failed with the very failure value the operation produced.
C3_HardFailureNotRetried ==
    (/\ \E k \in 1..Len(outcomes) : IsFailure(outcomes[k])
     /\ \A k \in 1..Len(outcomes) :
           IsFailure(outcomes[k]) => ~isRateLimitError(outcomes[k].value))
    => /\ apiCalls = 1
       /\ delays = <<>>
       /\ rpc = "thrown"
       /\ retryResult = Threw(outcomes[1].value)

\* C3 happens: a hard failure with retries still allowed ended the call.
C3_Witness ==
    /\ rpc = "thrown"
    /\ maxRetries = DefaultMaxRetries
    /\ outcomes = <<Rejected(ErrAuth)>>
    /\ apiCalls = 1

\* C4: for maxRetries >= 1, while the operation has failed rate-limited fewer
\* than maxRetries times and nothing else the call is still running; when it
\* then succeeds on its maxRetries-th invocation the call returns that value
\* and the operation has been invoked exactly maxRetries times.
C4_SucceedsOnLastAttempt ==
    (/\ rpc # "idle"
     /\ maxRetries >= 1
     /\ \A k \in 1..Len(outcomes) : k < maxRetries => IsRateLimited(outcomes[k]))
    => /\ Len(outcomes) < maxRetries => RetryRunning
       /\ (Len(outcomes) = maxRetries /\ outcomes[maxRetries].ok)
             => /\ rpc = "returned"
                /\ retryResult = Returned(outcomes[maxRetries].value)
                /\ apiCalls = maxRetries

\* C4 happens: two rate-limited failures, then success on the third call.
C4_Witness ==
    /\ rpc = "returned"
    /\ maxRetries = DefaultMaxRetries
    /\ Len(outcomes) = 3
    /\ IsRateLimited(outcomes[1])
    /\ IsRateLimited(outcomes[2])
    /\ apiCalls = 3

C6_BackoffDoubles ==
    \A k \in 1..Len(delays) :
       /\ delays[k] >= initialDelay * 2^(k - 1)
       /\ delays[k] < initialDelay * 2^(k - 1) + 1000

\* C6 happens: a third retry under the default initial delay, which waits
\* between 4000 and 5000 ms, after 1000.. and 2000.. before.
C6_Witness ==
    /\ initialDelay = DefaultInitialDelay
    /\ Len(delays) = 3
    /\ delays[1] < 2000
    /\ delays[2] >= 2000 /\ delays[2] < 3000
    /\ delays[3] >= 4000

\* C7: once the operation has succeeded on an attempt, the call has returned
\* exactly that value, the operation has not been invoked again and no delay
\* was started after that attempt.
C7_SuccessReturnedUnchanged ==
    \A k \in 1..Len(outcomes) :
       outcomes[k].ok
          => /\ rpc = "returned"
             /\ retryResult = Returned(outcomes[k].value)
             /\ Len(outcomes) = k
             /\ apiCalls = k
             /\ Len(delays) = k - 1

\* C7 happens: a success on a retry (after one backoff).
C7_Witness ==
    /\ rpc = "returned"
    /\ Len(outcomes) = 2
    /\ outcomes[2] = Fulfilled("v2")
    /\ Len(delays) = 1

\* ---------------------------------------------- claims: runPromisesInBatches

\* The chunk (0-based) an operation belongs to.
ChunkOf(j) == (j - 1) \div batchSize
Ops == 1..numOps
InFlight == {j \in Ops : opState[j] = "inflight"}
Completed == {j \in Ops : opState[j] \in {"resolved", "rejected"}}
RejectedOps == {j \in Ops : opState[j] = "rejected"}
\* The operation whose failure occurred first.
FirstRejected ==
    completionOrder[CHOOSE k \in 1..Len(completionOrder) :
        /\ completionOrder[k] \in RejectedOps
        /\ \A l \in 1..(k - 1) : completionOrder[l] \notin RejectedOps]

\* C1: when all operations succeed the call returns (it cannot fail), and
\* the returned list has the length of the input, its j-th element being the
\* result of the j-th operation, whatever the order of completion.
C1_ResultsInInputOrder ==
    /\ bpc = "returned"
          => /\ batchResult.kind = "return"
             /\ Len(batchResult.value) = numOps
             /\ \A j \in Ops : opOutcome[j] = Fulfilled(batchResult.value[j])
    /\ (bpc \in {"returned", "thrown"} /\ \A j \in Ops : opState[j] = "resolved")
          => bpc = "returned"

\* C1 happens: a call returned although two operations of one chunk, with
\* different results, completed in the reverse of their input order.
C1_Witness ==
    /\ bpc = "returned"
    /\ numOps >= 3
    /\ \E a, b \in 1..Len(completionOrder) :
          /\ a < b
          /\ completionOrder[a] > completionOrder[b]
          /\ ChunkOf(completionOrder[a]) = ChunkOf(completionOrder[b])
          /\ opOutcome[completionOrder[a]] # opOutcome[completionOrder[b]]

\* C2: while the call is running at most batchSize of its operations are
\* started and not yet completed.
C2_AtMostBatchSizeInFlight ==
    bpc = "awaiting" => Cardinality(InFlight) <= batchSize

\* C2 happens: a full chunk of 3 is in flight while operations remain deferred.
C2_Witness ==
    /\ bpc = "awaiting"
    /\ batchSize = 3
    /\ Cardinality(InFlight) = 3
    /\ \E j \in Ops : opState[j] = "deferred"

\* C8: once an operation has failed the call never returns a list, no
\* operation of a later chunk is started, the only way the call can go on is
\* to fail, and when it fails it fails with the failure that occurred first.
C8_FailsWithFirstFailure ==
    RejectedOps # {}
    => /\ bpc \in {"awaiting", "thrown"}
       /\ batchResult.kind # "return"
       /\ \A j \in Ops :
             ChunkOf(j) > ChunkOf(FirstRejected) => opState[j] = "deferred"
       /\ bpc = "thrown" => batchResult = Threw(opOutcome[FirstRejected].value)
       /\ bpc = "awaiting" => ENABLED ResumeRejected /\ ~ENABLED ResumeFulfilled

\* C8 happens: the call failed after two operations of one chunk failed with
\* different failures, and a later chunk was left unstarted.
C8_Witness ==
    /\ bpc = "thrown"
    /\ \E a, b \in RejectedOps : opOutcome[a] # opOutcome[b]
    /\ \E j \in Ops : opState[j] = "deferred"

\* C9: the call does not resume, returning or failing, before every operation
\* of the current chunk has completed: once it has settled no operation is in
\* flight.
C9_SettlesOnlyAfterWholeChunk ==
    bpc \in {"returned", "thrown"} => InFlight = {}

\* C10: an operation is invoked at most once, when its own chunk starts
\* (i = the chunk's first index), and then every operation of every earlier
\* chunk has completed.
C10_ChunksInSequence ==
    \A j \in Ops :
       /\ opInvoked[j] <= 1
       /\ opState[j] # "deferred" <=> opInvoked[j] = 1
       /\ opInvoked[j] >= 1
             => /\ startedAtI[j] = ChunkOf(j) * batchSize
                /\ \A l \in Ops : ChunkOf(l) < ChunkOf(j) => l \in Completed

\* C10 happens: an operation of the third chunk is in flight after two chunks
\* of two operations each have completed.
C10_Witness ==
    \E j \in Ops :
       /\ batchSize = 2
       /\ ChunkOf(j) = 2
       /\ opState[j] = "inflight"

\* ------------------------------------------------------------ claims: cycles

\* The cycles that have returned a CycleResult or failed to their caller.
CycleSettled(c) == cycles[c].pc \in {"returned", "thrown"}
CycleReturned(c) == cycles[c].pc = "returned"
\* Cycle c returned the well-formed cutting list.
ReturnedCuttingList(c) ==
    /\ ~cycles[c].result.value.cuttingList.isNull
    /\ cycles[c].result.value.cuttingList.val.t = "object"
    /\ cycles[c].result.value.cuttingList = Some(ValueCuttingList)
CycleFailed(c) == cycles[c].pc = "thrown"
CuttingInFlight(c) == cycles[c].cut.state = "inflight"
ImageDeferred(c) ==
    {k \in DOMAIN cycles[c].img : cycles[c].img[k].state = "deferred"}

\* C11: once a cycle has returned a CycleResult or failed to its caller, none
\* of its remote calls is in flight (so none can lead to a further call).
C11_NoBackgroundWork ==
    \A c \in CycleIds :
       CycleSettled(c) => ImageInFlight(c) = {} /\ ~CuttingInFlight(c)

\* ------------------------------------------------------------ claims: the App

\* The image and sketch calls in flight in the session, over all its cycles.
SessionImagesInFlight ==
    UNION {{<<c, k>> : k \in ImageInFlight(c)} : c \in CycleIds}
\* The cycles that have been started and have not settled.
UnsettledCycles == {c \in CycleIds : cycles[c].pc \in {"describing", "assets"}}

\* C12: at every instant of a session at most 3 image or sketch calls are in
\* flight, over all the cycles the session has started.
C12_AtMostThreeImageCallsInFlight ==
    Cardinality(SessionImagesInFlight) <= ImageBatchSize

\* C13: at most one cycle is unsettled at any time: isLoading is true exactly
\* while the cycle a handler awaits is unsettled, no other cycle is unsettled,
\* and neither handleSubmit nor handleEditSubmit can start a cycle then.
C13_AtMostOneCycleInFlight ==
    /\ Cardinality(UnsettledCycles) <= 1
    /\ isLoading <=> awaited # 0
    /\ UnsettledCycles = IF awaited # 0 THEN {awaited} ELSE {}
    /\ isLoading => ~ENABLED handleSubmit /\ ~ENABLED handleEditSubmit

\* C13 happens: a cycle is in flight while the prompt input is mounted with a
\* non-blank prompt, so that only the isLoading guard stops handleSubmit.
C13_Witness ==
    /\ isLoading
    /\ ~isEditing
    /\ TruthyString(trim(prompt))
    /\ FreshCycles # {}
    /\ UnsettledCycles # {}

\* The cycles that have issued asset calls.
AssetsIssued(c) == cycles[c].img # <<>> \/ cycles[c].cut.state # "unbuilt"

\* C14: in a cycle every image request, the sketch request and the
\* cutting-list request carry one and the same description, every image of
\* the CycleResult is rendered from it, and it is the detailedDescription of
\* the CycleResult.
C14_OneDescriptionPerCycle ==
    \A c \in CycleIds :
       AssetsIssued(c) =>
          LET cy == cycles[c]
              d == cy.cut.prompt.descr
          IN  /\ \A k \in DOMAIN cy.img : cy.img[k].prompt.descr = d
              /\ Len(cy.img) = NumImageCalls
              /\ CycleReturned(c) =>
                    /\ cy.result.value.detailedDescription = Some(d)
                    /\ ~cy.result.value.imageViews.isNull =>
                          \A v \in DOMAIN cy.result.value.imageViews.val :
                             \E k \in 1..Len(VIEWS) :
                                cy.result.value.imageViews.val[v].url =
                                   DataUrl(ImageOf(ImagePrompt(d, k)).bytes)
                    /\ ~cy.result.value.sketchUrl.isNull =>
                          cy.result.value.sketchUrl.val =
                             DataUrl(ImageOf(ImagePrompt(d, SketchCall)).bytes)

\* C14 happens: an edit cycle has returned views, a sketch and a cutting list,
\* for a description that was trimmed.
C14_Witness ==
    \E c \in CycleIds :
       /\ CycleReturned(c)
       /\ cycles[c].kind = "edit"
       /\ cycles[c].described = Returned(Text(<<" ", "d1", "\n">>))
       /\ cycles[c].result.value.detailedDescription = Some(<<"d1">>)
       /\ ~cycles[c].result.value.imageViews.isNull
       /\ ~cycles[c].result.value.sketchUrl.isNull
       /\ ~cycles[c].result.value.cuttingList.isNull

\* C15: asset calls are issued only after the description call has fulfilled
\* with text that is non-empty after trimming; when that call rejects, or
\* fulfils with no text or with blank text, the cycle has failed and has
\* issued no image, sketch or cutting-list call.
C15_NoAssetsWithoutDescription ==
    \A c \in CycleIds :
       LET cy == cycles[c]
           blank == \/ ~cy.described.value.defined
                    \/ ~TruthyString(trim(cy.described.value.s))
       IN  /\ cy.described = NoResult =>
                ~AssetsIssued(c) /\ cy.pc \in {"unused", "describing"}
           /\ cy.described.kind = "throw" =>
                ~AssetsIssued(c) /\ CycleFailed(c) /\ cy.result = cy.described
           /\ cy.described.kind = "return" /\ blank =>
                ~AssetsIssued(c) /\ CycleFailed(c)
           /\ AssetsIssued(c) =>
                cy.described.kind = "return" /\ ~blank
                   /\ cy.descr = trim(cy.described.value.s)

\* C15 happens: a generate cycle has failed on a description of white space
\* only, an edit cycle on a rejected description call.
C15_Witness ==
    \E c \in CycleIds :
       /\ CycleFailed(c)
       /\ \/ /\ cycles[c].kind = "generate"
             /\ cycles[c].described = Returned(Text(<<" ", "\n">>))
             /\ cycles[c].result = Threw(ErrNoDescription)
          \/ /\ cycles[c].kind = "edit"
             /\ cycles[c].described = Threw(ErrQuota)

\* The views a returned cycle is expected to show: in the order of VIEWS, the
\* label and the data URL of every view call whose answer satisfies Shown.
ViewsWhere(c, Shown(_)) ==
    LET calls == SelectSeq([k \in 1..Len(VIEWS) |-> k],
                           LAMBDA k : Shown(Base64Of(cycles[c].img[k].res)))
    IN  [n \in 1..Len(calls) |->
            [label |-> VIEWS[calls[n]],
             url |-> DataUrl(cycles[c].img[calls[n]].res.bytes)]]
\* The imageViews of a returned cycle as a list (null: the empty list).
ReturnedViews(c) ==
    IF cycles[c].result.value.imageViews.isNull
    THEN <<>>
    ELSE cycles[c].result.value.imageViews.val

\* C16 as stated: the imageViews of a CycleResult are exactly the views whose
\* call returned a non-null payload, in the order of VIEWS.
C16_ViewsWithNonNullPayload ==
    \A c \in CycleIds :
       CycleReturned(c) =>
          ReturnedViews(c) = ViewsWhere(c, LAMBDA b : ~b.isNull)

\* C16 amended: the imageViews of a CycleResult are exactly the views whose
\* call returned a payload that is neither null nor the empty string, in the
\* order of VIEWS, whatever the order the calls completed in; the sketch is
\* not among them.
C16_ViewsWithNonEmptyPayload ==
    \A c \in CycleIds :
       CycleReturned(c) =>
          /\ ReturnedViews(c) = ViewsWhere(c, TruthyBase64)
          /\ \A v \in DOMAIN ReturnedViews(c) :
                \E k \in 1..Len(VIEWS) : ReturnedViews(c)[v].label = VIEWS[k]

\* C16 happens: a cycle has returned where the front view came without a
\* payload, the back view with an empty payload, and the other three views
\* and the sketch with an image.
C16_Witness ==
    \E c \in CycleIds :
       /\ CycleReturned(c)
       /\ cycles[c].img[1].res = NoImage
       /\ cycles[c].img[2].res = EmptyImage
       /\ \A k \in 3..NumImageCalls : TruthyBase64(Base64Of(cycles[c].img[k].res))
       /\ Len(ReturnedViews(c)) = 3

\* Every remote call of the cycle's assets has fulfilled.
AllCallsFulfilled(c) ==
    /\ AssetsIssued(c)
    /\ \A k \in DOMAIN cycles[c].img : cycles[c].img[k].state = "fulfilled"
    /\ cycles[c].cut.state = "fulfilled"
\* The sketch URL a returned cycle is expected to carry.
ExpectedSketch(c) ==
    IF TruthyBase64(Base64Of(cycles[c].img[SketchCall].res))
    THEN Some(DataUrl(cycles[c].img[SketchCall].res.bytes))
    ELSE Null

\* C17: when all six image and sketch calls fulfil with a null payload and
\* the structured-content call fulfils, the cycle returns a CycleResult with
\* imageViews = null and sketchUrl = null, and its cuttingList is what the
\* structured-content response alone determines.
C17_AllNullImages ==
    \A c \in CycleIds :
       (AllCallsFulfilled(c)
          /\ \A k \in DOMAIN cycles[c].img : cycles[c].img[k].res = NoImage)
       => /\ CycleReturned(c)
          /\ cycles[c].result.value.imageViews = Null
          /\ cycles[c].result.value.sketchUrl = Null
          /\ cycles[c].result.value.cuttingList = CuttingListOf(cycles[c].cut.res)

\* C17 happens: a cycle has returned with six null payloads and a cutting
\* list.
C17_Witness ==
    \E c \in CycleIds :
       /\ CycleReturned(c)
       /\ \A k \in DOMAIN cycles[c].img : cycles[c].img[k].res = NoImage
       /\ ReturnedCuttingList(c)

\* The structured-content response has no text, blank text, or text that
\* JSON.parse rejects.
Unparseable(response) ==
    \/ ~response.defined
    \/ ~TruthyString(trim(response.s))
    \/ ~JSONparse(trim(response.s)).ok

\* C18: when every call fulfils and the structured-content text is empty or
\* not parseable, the cycle returns a CycleResult with cuttingList = null,
\* and its imageViews and sketchUrl are what the image answers determine.
C18_UnparseableCuttingList ==
    \A c \in CycleIds :
       (AllCallsFulfilled(c) /\ Unparseable(cycles[c].cut.res))
       => /\ CycleReturned(c)
          /\ cycles[c].result.value.cuttingList = Null
          /\ cycles[c].result.value.imageViews =
                NullIfNone(ViewsWhere(c, TruthyBase64))
          /\ cycles[c].result.value.sketchUrl = ExpectedSketch(c)

\* C18 happens: a cycle has returned views and a sketch although the
\* structured-content call answered with prose.
C18_Witness ==
    \E c \in CycleIds :
       /\ CycleReturned(c)
       /\ cycles[c].cut.res = Text(<<NotJson>>)
       /\ Len(ReturnedViews(c)) = Len(VIEWS)
       /\ ~cycles[c].result.value.sketchUrl.isNull

\* The CuttingList shape of cuttingListSchema: an object with a string
\* houseName, a string description and an array materials of objects with a
\* string name, a number quantity and a string dimensions.
HasField(o, f, t) == f \in DOMAIN o.v /\ o.v[f].t = t
HasCuttingListShape(j) ==
    /\ j.t = "object"
    /\ HasField(j, "houseName", "string")
    /\ HasField(j, "description", "string")
    /\ HasField(j, "materials", "array")
    /\ \A n \in DOMAIN j.v.materials.v :
          LET material == j.v.materials.v[n]
          IN  /\ material.t = "object"
              /\ HasField(material, "name", "string")
              /\ HasField(material, "quantity", "number")
              /\ HasField(material, "dimensions", "string")

\* C19: a non-null cuttingList of a CycleResult has the CuttingList shape.
C19_CuttingListHasShape ==
    \A c \in CycleIds :
       (CycleReturned(c) /\ ~cycles[c].result.value.cuttingList.isNull)
       => HasCuttingListShape(cycles[c].result.value.cuttingList.val)

\* The failures the asset calls of a cycle have ended with.
CallFailures(c) ==
    {cycles[c].img[k].reason.val :
        k \in {j \in DOMAIN cycles[c].img : ~cycles[c].img[j].reason.isNull}}
    \cup (IF cycles[c].cut.reason.isNull THEN {} ELSE {cycles[c].cut.reason.val})

\* C20: once an image, sketch or structured-content call of a cycle has
\* failed, the cycle has failed with the failure value of one of its calls,
\* unmodified (of the one call that failed, when only one did), and a cycle
\* that returns a CycleResult has had no failed call.
C20_CallFailureFailsCycle ==
    \A c \in CycleIds :
       /\ CallFailures(c) # {} =>
             /\ CycleFailed(c)
             /\ cycles[c].result.kind = "throw"
             /\ cycles[c].result.value \in CallFailures(c)
       /\ CycleReturned(c) => CallFailures(c) = {} /\ AllCallsFulfilled(c)

\* C20 happens: the first chunk and the structured-content call have
\* fulfilled, one call of the second chunk alone has failed, with a
\* rate-limit failure, and the cycle has failed with it.
C20_Witness ==
    \E c \in CycleIds :
       /\ CycleFailed(c)
       /\ CallFailures(c) = {ErrQuota}
       /\ cycles[c].img[ImageBatchSize + 2].reason = Some(ErrQuota)
       /\ cycles[c].cut.state = "fulfilled"
       /\ cycles[c].result = Threw(ErrQuota)

\* ------------------------------------------- claims: retry classification

\* The failures of Failures that are Error objects whose message mentions
\* quota, rate limit or 429 in any letter case.
RetryableFailures == {ErrQuota, ErrRate, Err429}

PresentAfterTrim(field) == TruthyString(trim(field))
\* The directive lines of the fields that are present after trimming, in the
\* order primary color, secondary color, roof material, feature highlights.
DirectivesOfPresentFields(edits) ==
    (IF PresentAfterTrim(edits.primaryColor)
     THEN <<"- Change the primary color to", " ">>
             \o edits.primaryColor \o <<".", "\n">>
     ELSE <<>>)
    \o (IF PresentAfterTrim(edits.secondaryColor)
        THEN <<"- Change the secondary color to", " ">>
                \o edits.secondaryColor \o <<".", "\n">>
        ELSE <<>>)
    \o (IF PresentAfterTrim(edits.roofMaterial)
        THEN <<"- Change the roof to be made of or look like", " ">>
                \o edits.roofMaterial \o <<".", "\n">>
        ELSE <<>>)
    \o (IF PresentAfterTrim(edits.featureHighlights)
        THEN <<"- Also, incorporate this request:", " ">>
                \o edits.featureHighlights \o <<".", "\n">>
        ELSE <<>>)
\* The part of an edit request that follows "Requested Changes:\n".
DirectivesSent(c) ==
    LET sent == cycles[c].contents
        at == CHOOSE k \in 1..Len(sent) : sent[k] = "Requested Changes:"
    IN  SubSeq(sent, at + 2, Len(sent))
\* The part of an edit request between the quotes after "Original
\* Description:".
DescriptionSent(c) ==
    LET sent == cycles[c].contents
        from == CHOOSE k \in 1..Len(sent) : sent[k] = "Original Description: \""
        to == CHOOSE k \in 1..Len(sent) : sent[k] = "Requested Changes:"
    IN  SubSeq(sent, from + 1, to - 4)

\* C21: the request of an edit cycle holds the prior description verbatim,
\* followed by one directive line for each field that is non-empty after
\* trimming, in the fixed order, and by nothing for a field that is empty or
\* white space only.
C21_DirectivePerTrimmedField ==
    \A c \in CycleIds :
       cycles[c].kind = "edit" =>
          /\ DescriptionSent(c) = cycles[c].originalDescription
          /\ DirectivesSent(c) = DirectivesOfPresentFields(cycles[c].edits)

\* The description call of the cycle fulfilled with text that is non-empty
\* after trimming.
DescribedWithText(c) ==
    /\ cycles[c].described.kind = "return"
    /\ cycles[c].described.value.defined
    /\ TruthyString(trim(cycles[c].described.value.s))

\* C22: an edit cycle whose four fields are all empty sends a request
\* without directive lines, and runs as any cycle does: its description call
\* is issued at once, and when that call answers with text all six image
\* calls and the structured-content call are made before a CycleResult is
\* returned.
C22_EmptyEditIsAFullCycle ==
    \A c \in CycleIds :
       (cycles[c].kind = "edit" /\ cycles[c].edits = NoEdits) =>
          /\ DescriptionSent(c) = cycles[c].originalDescription
          /\ DirectivesSent(c) = <<>>
          /\ cycles[c].pc = "describing" <=> cycles[c].described = NoResult
          /\ DescribedWithText(c) =>
                /\ Len(cycles[c].img) = NumImageCalls
                /\ cycles[c].cut.state # "unbuilt"
          /\ CycleReturned(c) => DescribedWithText(c) /\ AllCallsFulfilled(c)

\* C22 happens: an edit cycle with no preferences has returned views, a
\* sketch and a cutting list for the regenerated description.
C22_Witness ==
    \E c \in CycleIds :
       /\ cycles[c].kind = "edit"
       /\ cycles[c].edits = NoEdits
       /\ CycleReturned(c)
       /\ Len(ReturnedViews(c)) = Len(VIEWS)
       /\ ~cycles[c].result.value.sketchUrl.isNull
       /\ ReturnedCuttingList(c)
       /\ cycles[c].result.value.detailedDescription = Some(<<"d1">>)

\* C23: when the description call of a generate cycle answers with text,
\* the five view calls and the sketch call each answer with an image and the
\* structured-content call with JSON of the CuttingList shape, the cycle
\* returns a CycleResult with the five views in the order of VIEWS, each with
\* the image of its own call, the sketch's image, the parsed cutting list and
\* the trimmed description.
C23_FullResult ==
    \A c \in CycleIds :
       (/\ cycles[c].kind = "generate"
        /\ DescribedWithText(c)
        /\ AllCallsFulfilled(c)
        /\ \A k \in 1..NumImageCalls :
              cycles[c].img[k].res = ImageOf(cycles[c].img[k].prompt)
        /\ ~Unparseable(cycles[c].cut.res)
        /\ HasCuttingListShape(JSONparse(trim(cycles[c].cut.res.s)).value))
       => /\ CycleReturned(c)
          /\ Len(ReturnedViews(c)) = Len(VIEWS)
          /\ \A k \in 1..Len(VIEWS) :
                ReturnedViews(c)[k] =
                   [label |-> VIEWS[k],
                    url |-> DataUrl(ImageOf(cycles[c].img[k].prompt).bytes)]
          /\ cycles[c].result.value.sketchUrl =
                Some(DataUrl(ImageOf(cycles[c].img[SketchCall].prompt).bytes))
          /\ ReturnedCuttingList(c)
          /\ Len(cycles[c].result.value.cuttingList.val.v.materials.v) = 1
          /\ cycles[c].result.value.detailedDescription =
                Some(trim(cycles[c].described.value.s))

\* C23 happens: a generate cycle has returned after seven successful asset
\* calls, the structured-content text padded with white space.
C23_Witness ==
    \E c \in CycleIds :
       /\ cycles[c].kind = "generate"
       /\ CycleReturned(c)
       /\ \A k \in 1..NumImageCalls :
             cycles[c].img[k].res = ImageOf(cycles[c].img[k].prompt)
       /\ cycles[c].cut.res = Text(<<" ", JsonCuttingList, "\n">>)
       /\ cycles[c].described = Returned(Text(<<" ", "d1", "\n">>))

FirstChunk == 1..ImageBatchSize
SecondChunk == (ImageBatchSize + 1)..NumImageCalls

\* C24: the structured-content call is in flight as soon as the first chunk
\* is, whatever the image calls do; the chunks are made of image calls only
\* (three in the first, three in the second, the second started exactly when
\* the first has fulfilled, whether or not the structured-content call has
\* completed); and a CycleResult is returned only when every image call and
\* the structured-content call have fulfilled.
C24_CuttingListOutsideTheChunks ==
    \A c \in CycleIds :
       AssetsIssued(c) =>
          /\ cycles[c].cut.state # "unbuilt"
          /\ \A k \in FirstChunk : cycles[c].img[k].state # "deferred"
          /\ (\A k \in FirstChunk : cycles[c].img[k].state = "fulfilled")
                <=> (\A k \in SecondChunk : cycles[c].img[k].state # "deferred")
          /\ (\E k \in SecondChunk : cycles[c].img[k].state # "deferred")
                => (\A k \in SecondChunk : cycles[c].img[k].state # "deferred")
          /\ Cardinality(ImageInFlight(c)) <= ImageBatchSize
          /\ CycleReturned(c) <=> AllCallsFulfilled(c)

\* C24 happens: the three calls of the second chunk are in flight while the
\* structured-content call is still in flight and the cycle is unsettled.
C24_Witness ==
    \E c \in CycleIds :
       /\ cycles[c].pc = "assets"
       /\ CuttingInFlight(c)
       /\ ImageInFlight(c) = SecondChunk

\* ------------------------------------------------ claims: the App's display

\* C25: in the step in which the cycle a handler awaits returns its
\* CycleResult, each of imageViews, sketchUrl, cuttingList and
\* detailedDescription becomes the corresponding field of that CycleResult
\* (null where that field is null).
C25_DisplayedFieldsAreTheResult ==
    [][\A c \in CycleIds :
          (awaited = c /\ cycles'[c].pc = "returned") =>
             /\ imageViews' = cycles'[c].result.value.imageViews
             /\ sketchUrl' = cycles'[c].result.value.sketchUrl
             /\ cuttingList' = cycles'[c].result.value.cuttingList
             /\ detailedDescription' =
                   cycles'[c].result.value.detailedDescription]_vars

\* The cycle the session started last (0: none yet).
StartedCycles == {c \in CycleIds : cycles[c].pc # "unused"}
LastCycle ==
    IF StartedCycles = {} THEN 0
    ELSE CHOOSE c \in StartedCycles : \A d \in StartedCycles : d <= c
NoAssetsShown == imageViews = Null /\ sketchUrl = Null /\ cuttingList = Null

\* C29: an error message and generated content are never shown together:
\* while a cycle is in flight the three asset fields and error are null,
\* after a failed cycle error is non-null and the asset fields are null, and
\* after a successful cycle error is null.
C29_ErrorAndContentExclusive ==
    /\ ~(~error.isNull /\ hasContent)
    /\ isLoading => NoAssetsShown /\ error = Null
    /\ (~isLoading /\ LastCycle # 0) =>
          /\ CycleFailed(LastCycle) => ~error.isNull /\ NoAssetsShown
          /\ CycleReturned(LastCycle) => error = Null

\* C29 happens: the design of a first cycle was shown, its edit failed, and
\* the message of the failure is shown without content.
C29_Witness ==
    /\ ~isLoading
    /\ LastCycle = 2
    /\ CycleReturned(1)
    /\ ~cycles[1].result.value.imageViews.isNull
    /\ cycles[2].kind = "edit"
    /\ CycleFailed(2)
    /\ ~error.isNull

\* C30: after a failed edit cycle the held detailedDescription is the
\* description the edit was submitted with and the three asset fields are
\* null; after a failed generate cycle detailedDescription is null.
C30_FailedEditKeepsDescription ==
    (~isLoading /\ LastCycle # 0 /\ CycleFailed(LastCycle)) =>
       /\ NoAssetsShown
       /\ cycles[LastCycle].kind = "edit" =>
             detailedDescription = Some(cycles[LastCycle].originalDescription)
       /\ cycles[LastCycle].kind = "generate" => detailedDescription = Null

\* C30 happens: an edit of the description d1 has failed on a remote call
\* and d1 is still held.
C30_Witness ==
    /\ ~isLoading
    /\ LastCycle = 2
    /\ cycles[2].kind = "edit"
    /\ CycleFailed(2)
    /\ cycles[2].result = Threw(ErrAuth)
    /\ cycles[2].originalDescription = <<"d1">>
    /\ detailedDescription = Some(<<"d1">>)

\* ------------------------------------ claims: termination of a cycle (C28)

\* The n-th callApiWithRetry call of cycle c has been made, and has rejected.
CallStarted(c, n) ==
    IF n = DescriptionCall THEN cycles[c].pc # "unused"
    ELSE IF n = CuttingCall THEN cycles[c].cut.state # "unbuilt"
    ELSE /\ n - DescriptionCall \in DOMAIN cycles[c].img
         /\ cycles[c].img[n - DescriptionCall].state # "deferred"
CallRejected(c, n) ==
    IF n = DescriptionCall THEN cycles[c].described.kind = "throw"
    ELSE IF n = CuttingCall THEN cycles[c].cut.state = "rejected"
    ELSE /\ n - DescriptionCall \in DOMAIN cycles[c].img
         /\ cycles[c].img[n - DescriptionCall].state = "rejected"

\* The apiCall invocations the n-th call of cycle c has made: the failed
\* ones, and the one in flight or fulfilled.
AttemptsMade(c, n) ==
    IF ~CallStarted(c, n) THEN 0
    ELSE IF CallRejected(c, n) THEN cycles[c].attempt[n]
    ELSE cycles[c].attempt[n] + 1
AttemptsOfCycle(c) ==
    SumOver([n \in RemoteCalls |-> AttemptsMade(c, n)], RemoteCalls)

AttemptsWithinBound ==
    /\ Cardinality(RemoteCalls) = 8
    /\ \A c \in CycleIds :
          /\ \A n \in RemoteCalls : AttemptsMade(c, n) <= 3
          /\ AttemptsOfCycle(c) <= 24

ShowsResultOf(c) ==
    /\ imageViews = cycles[c].result.value.imageViews
    /\ sketchUrl = cycles[c].result.value.sketchUrl
    /\ \/ cuttingList.isNull
       \/ cuttingList = cycles[c].result.value.cuttingList

\* Edit cycle c was started with the description of the cycle before it,
\* which returned.
EditedFromCycleBefore(c) ==
    /\ c - 1 \in CycleIds
    /\ CycleReturned(c - 1)
    /\ TruthyString(cycles[c].originalDescription)
    /\ cycles[c].originalDescription = cycles[c - 1].descr

\* C31: while the edit form is open no cycle is in flight, a description is
\* held, an asset field is non-null, and the held description is the one
\* the displayed assets were generated from; and every edit cycle was
\* started with the description of the design displayed at its start.
C31_EditFormHoldsDisplayedDesign ==
    /\ isEditing =>
          /\ ~isLoading /\ awaited = 0
          /\ ~detailedDescription.isNull
          /\ hasContent
          /\ LastCycle # 0
          /\ CycleReturned(LastCycle)
          /\ ShowsResultOf(LastCycle)
          /\ detailedDescription = Some(cycles[LastCycle].descr)
    /\ \A c \in CycleIds :
          cycles[c].kind = "edit" => EditedFromCycleBefore(c)

\* C31 happens: the edit form is open on the design an edit cycle returned.
C31_Witness ==
    /\ isEditing
    /\ LastCycle = 2
    /\ cycles[2].kind = "edit"
    /\ CycleReturned(2)
    /\ ~imageViews.isNull
    /\ detailedDescription = Some(<<"d1">>)

====
